---- MODULE Spec2Model ----
(***************************************************************************)
(* EntityFu: the entity registry and the per-component-type stores of the  *)
(* latest revision of EntityFu.cpp (namespace Entity, vector<Eid> dense    *)
(* lists), with the Assert macro of both builds.                           *)
(***************************************************************************)
EXTENDS Integers, Sequences, FiniteSets, TLC

\* enum {kMaxEntities = 8192}, scaled down: entity ids are 0 .. kMaxEntities - 1
kMaxEntities == 4
\* Entity::Component::numCids, set by the application: cids are 0 .. numCids - 1
numCids == 2
\* how many component instances (allocated with new) the engine is given in one run
MaxNew == 3

VARIABLES
    entities,       \* static bool* entities: <<>> is nullptr, else [Eid -> BOOLEAN]
    components,     \* static Component*** components: <<>> is nullptr, else [Cid -> [Eid -> pointer]]
    componentEids,  \* static vector<Eid>* componentEids: <<>> is nullptr, else [Cid -> Seq(Eid)]
    deleted,        \* per component instance, how many times `delete` ran on it
    numNew,         \* component instances the caller has handed over to the engine so far
    ndebug,         \* whether the build defines NDEBUG (Assert and LogV compiled out)
    last,           \* the call the caller has made and not yet taken the result of: its name,
                    \* arguments, result and outcome, and the storage it was made on
    health,         \* main.cpp: the fields hp, maxHP of every HealthComponent object
    pc,             \* main.cpp: where main() is
    tickAll,        \* HealthSystem::tick: `all`, the copy of getAll<HealthComponent>()
    pos,            \* HealthSystem::tick: the position of the range-for in the list
    ticks,          \* how many calls of HealthSystem::tick have returned
    visited,        \* the eids the loop of the running or the last tick has visited, in order
    stale,          \* whether a tick has read or written a HealthComponent after its delete
    minEids,        \* the min/max revision: static Eid* minEids, <<>> is nullptr, else [Cid -> Eid]
    maxEids         \* the min/max revision: static Eid* maxEids, <<>> is nullptr, else [Cid -> Eid]

\* the variables of the example program of main.cpp
mainVars == <<health, pc, tickAll, pos, ticks, visited, stale>>

\* the range tables of the min/max revision of EntityFu.cpp
rangeVars == <<minEids, maxEids>>

vars == <<entities, components, componentEids, deleted, numNew, ndebug, last,
          health, pc, tickAll, pos, ticks, visited, stale, minEids, maxEids>>

\* a null table pointer
nullptr == <<>>
\* a null Component*
NoComponent == 0

Eids == 0 .. (kMaxEntities - 1)
Cids == 0 .. (numCids - 1)
\* arguments a caller may pass: every valid value and one past the range
EidArgs == 0 .. kMaxEntities
CidArgs == 0 .. numCids
Pointers == 1 .. MaxNew

\* the engine's storage, the heap's delete counts, and the progress of the running call
State == [entities |-> entities, components |-> components, componentEids |-> componentEids,
          deleted |-> deleted, dlog |-> <<>>, out |-> "ok", ret |-> 0]

\* Assert(false, ...): throws the format string unless NDEBUG compiles it out
AssertFalse(s) == IF ndebug THEN s ELSE [s EXCEPT !.out = "throw"]

\* a null table pointer dereferenced, or a table indexed past its end
Undefined(s) == [s EXCEPT !.out = "ub"]

\* vector::erase(find(begin, end, eid)): drop the first occurrence, keep the rest in place
RECURSIVE eraseFirst(_, _)
eraseFirst(eids, eid) ==
    IF eids = <<>> THEN <<>>
    ELSE IF Head(eids) = eid THEN Tail(eids)
    ELSE <<Head(eids)>> \o eraseFirst(Tail(eids), eid)

\* alloc building blank tables whether or not the engine is allocated
alloc_always(s) ==
    [s EXCEPT !.entities = [eid \in Eids |-> FALSE],
              !.components = [cid \in Cids |-> [eid \in Eids |-> NoComponent]],
              !.componentEids = [cid \in Cids |-> <<>>]]

alloc(s) ==
    IF s.components # nullptr THEN s
    ELSE [s EXCEPT !.entities = [eid \in Eids |-> FALSE],
                   !.components = [cid \in Cids |-> [eid \in Eids |-> NoComponent]],
                   !.componentEids = [cid \in Cids |-> <<>>]]

\* removeComponent without the erase from the dense list
removeComponent_keepsEid(s, cid, eid) ==
    IF s.out # "ok" THEN s
    ELSE IF eid >= kMaxEntities THEN AssertFalse(s)
    ELSE IF s.entities = nullptr THEN Undefined(s)
    ELSE IF ~s.entities[eid] THEN AssertFalse(s)
    ELSE IF cid >= numCids THEN AssertFalse(s)
    ELSE IF s.components = nullptr THEN Undefined(s)
    ELSE LET ptr == s.components[cid][eid] IN
         IF ptr = NoComponent THEN s
         ELSE [s EXCEPT !.deleted[ptr] = @ + 1,
                        !.dlog = Append(@, <<cid, eid, ptr>>),
                        !.components[cid][eid] = NoComponent]

\* removeComponent erasing by swap with the last entry
removeComponent_swapsLast(s, cid, eid) ==
    IF s.out # "ok" THEN s
    ELSE IF eid >= kMaxEntities THEN AssertFalse(s)
    ELSE IF s.entities = nullptr THEN Undefined(s)
    ELSE IF ~s.entities[eid] THEN AssertFalse(s)
    ELSE IF cid >= numCids THEN AssertFalse(s)
    ELSE IF s.components = nullptr THEN Undefined(s)
    ELSE LET ptr == s.components[cid][eid]
             eids == s.componentEids[cid]
             n == Len(eids) IN
         IF ptr = NoComponent THEN s
         ELSE [s EXCEPT !.deleted[ptr] = @ + 1,
                        !.dlog = Append(@, <<cid, eid, ptr>>),
                        !.components[cid][eid] = NoComponent,
                        !.componentEids[cid] =
                            [i \in 1 .. (n - 1) |-> IF eids[i] = eid THEN eids[n] ELSE eids[i]]]

\* removeComponent deleting the instance and leaving its pointer in the slot
removeComponent_keepsSlot(s, cid, eid) ==
    IF s.out # "ok" THEN s
    ELSE IF eid >= kMaxEntities THEN AssertFalse(s)
    ELSE IF s.entities = nullptr THEN Undefined(s)
    ELSE IF ~s.entities[eid] THEN AssertFalse(s)
    ELSE IF cid >= numCids THEN AssertFalse(s)
    ELSE IF s.components = nullptr THEN Undefined(s)
    ELSE LET ptr == s.components[cid][eid] IN
         IF ptr = NoComponent THEN s
         ELSE IF s.componentEids = nullptr THEN Undefined(s)
         ELSE [s EXCEPT !.deleted[ptr] = @ + 1, !.dlog = Append(@, <<cid, eid, ptr>>),
                        !.componentEids[cid] = eraseFirst(@, eid)]

\* removeComponent clearing the dense list instead of erasing the one id
removeComponent_clearsList(s, cid, eid) ==
    IF s.out # "ok" THEN s
    ELSE IF eid >= kMaxEntities THEN AssertFalse(s)
    ELSE IF s.entities = nullptr THEN Undefined(s)
    ELSE IF ~s.entities[eid] THEN AssertFalse(s)
    ELSE IF cid >= numCids THEN AssertFalse(s)
    ELSE IF s.components = nullptr THEN Undefined(s)
    ELSE LET ptr == s.components[cid][eid] IN
         IF ptr = NoComponent THEN s
         ELSE IF s.componentEids = nullptr THEN Undefined(s)
         ELSE [s EXCEPT !.deleted[ptr] = @ + 1, !.dlog = Append(@, <<cid, eid, ptr>>),
                        !.components[cid][eid] = NoComponent,
                        !.componentEids[cid] = <<>>]

removeComponent(s, cid, eid) ==
    IF s.out # "ok" THEN s
    ELSE IF eid >= kMaxEntities THEN AssertFalse(s)
    ELSE IF s.entities = nullptr THEN Undefined(s)
    ELSE IF ~s.entities[eid] THEN AssertFalse(s)
    ELSE IF cid >= numCids THEN AssertFalse(s)
    ELSE IF s.components = nullptr THEN Undefined(s)
    ELSE LET ptr == s.components[cid][eid] IN
         IF ptr = NoComponent THEN s
         ELSE IF s.componentEids = nullptr THEN Undefined(s)
         ELSE [s EXCEPT !.deleted[ptr] = @ + 1,
                        !.dlog = Append(@, <<cid, eid, ptr>>),
                        !.components[cid][eid] = NoComponent,
                        !.componentEids[cid] = eraseFirst(@, eid)]

\* addComponent storing over an occupied slot without deleting what it holds
addComponent_overwrites(s, cid, eid, c) ==
    IF c = NoComponent THEN s
    ELSE IF eid >= kMaxEntities THEN AssertFalse(s)
    ELSE IF s.entities = nullptr THEN Undefined(s)
    ELSE IF ~s.entities[eid] THEN AssertFalse(s)
    ELSE IF cid >= numCids THEN AssertFalse(s)
    ELSE IF s.components = nullptr THEN Undefined(s)
    ELSE [s EXCEPT !.components[cid][eid] = c,
                   !.componentEids[cid] = Append(@, eid)]

\* addComponent without the liveness check of its guard
addComponent_noLiveCheck(s, cid, eid, c) ==
    IF c = NoComponent THEN s
    ELSE IF eid >= kMaxEntities THEN AssertFalse(s)
    ELSE IF cid >= numCids THEN AssertFalse(s)
    ELSE IF s.components = nullptr THEN Undefined(s)
    ELSE LET s1 == IF s.components[cid][eid] # NoComponent
                   THEN removeComponent(s, cid, eid) ELSE s IN
         IF s1.out # "ok" THEN s1
         ELSE [s1 EXCEPT !.components[cid][eid] = c,
                         !.componentEids[cid] = Append(@, eid)]

\* addComponent deleting the old instance and leaving the dense list as it is
addComponent_keepsPlace(s, cid, eid, c) ==
    IF c = NoComponent THEN s
    ELSE IF eid >= kMaxEntities THEN AssertFalse(s)
    ELSE IF s.entities = nullptr THEN Undefined(s)
    ELSE IF ~s.entities[eid] THEN AssertFalse(s)
    ELSE IF cid >= numCids THEN AssertFalse(s)
    ELSE IF s.components = nullptr THEN Undefined(s)
    ELSE LET ptr == s.components[cid][eid] IN
         IF ptr # NoComponent
         THEN [s EXCEPT !.deleted[ptr] = @ + 1,
                        !.dlog = Append(@, <<cid, eid, ptr>>),
                        !.components[cid][eid] = c]
         ELSE [s EXCEPT !.components[cid][eid] = c,
                        !.componentEids[cid] = Append(@, eid)]

\* addComponent asserting on a null component instead of returning
addComponent_assertsNull(s, cid, eid, c) ==
    IF c = NoComponent THEN AssertFalse(s)
    ELSE IF eid >= kMaxEntities THEN AssertFalse(s)
    ELSE IF s.entities = nullptr THEN Undefined(s)
    ELSE IF ~s.entities[eid] THEN AssertFalse(s)
    ELSE IF cid >= numCids THEN AssertFalse(s)
    ELSE IF s.components = nullptr THEN Undefined(s)
    ELSE LET s1 == IF s.components[cid][eid] # NoComponent
                   THEN removeComponent(s, cid, eid) ELSE s IN
         IF s1.out # "ok" THEN s1
         ELSE [s1 EXCEPT !.components[cid][eid] = c,
                         !.componentEids[cid] = Append(@, eid)]

\* addComponent keeping the instance a slot already holds
addComponent_keepsFirst(s, cid, eid, c) ==
    IF c = NoComponent THEN s
    ELSE IF eid >= kMaxEntities THEN AssertFalse(s)
    ELSE IF s.entities = nullptr THEN Undefined(s)
    ELSE IF ~s.entities[eid] THEN AssertFalse(s)
    ELSE IF cid >= numCids THEN AssertFalse(s)
    ELSE IF s.components = nullptr THEN Undefined(s)
    ELSE IF s.components[cid][eid] # NoComponent THEN s
    ELSE [s EXCEPT !.components[cid][eid] = c,
                   !.componentEids[cid] = Append(@, eid)]

\* addComponent deleting the component it rejects
addComponent_deletesRejected(s, cid, eid, c) ==
    LET gone == [s EXCEPT !.deleted[c] = @ + 1] IN
    IF c = NoComponent THEN s
    ELSE IF eid >= kMaxEntities THEN AssertFalse(gone)
    ELSE IF s.entities = nullptr THEN Undefined(s)
    ELSE IF ~s.entities[eid] THEN AssertFalse(gone)
    ELSE IF cid >= numCids THEN AssertFalse(gone)
    ELSE IF s.components = nullptr THEN Undefined(s)
    ELSE LET s1 == IF s.components[cid][eid] # NoComponent
                   THEN removeComponent(s, cid, eid) ELSE s IN
         IF s1.out # "ok" THEN s1
         ELSE [s1 EXCEPT !.components[cid][eid] = c,
                         !.componentEids[cid] = Append(@, eid)]

addComponent(s, cid, eid, c) ==
    IF c = NoComponent THEN s
    ELSE IF eid >= kMaxEntities THEN AssertFalse(s)
    ELSE IF s.entities = nullptr THEN Undefined(s)
    ELSE IF ~s.entities[eid] THEN AssertFalse(s)
    ELSE IF cid >= numCids THEN AssertFalse(s)
    ELSE IF s.components = nullptr THEN Undefined(s)
    ELSE LET s1 == IF s.components[cid][eid] # NoComponent
                   THEN removeComponent(s, cid, eid) ELSE s IN
         IF s1.out # "ok" THEN s1
         ELSE IF s1.componentEids = nullptr THEN Undefined(s1)
         ELSE [s1 EXCEPT !.components[cid][eid] = c,
                         !.componentEids[cid] = Append(@, eid)]

\* for (Cid cid = 0; cid < numCids; cid++) removeComponent(cid, eid), from cid on
RECURSIVE removeFrom(_, _, _)
removeFrom(s, cid, eid) ==
    IF cid >= numCids \/ s.out # "ok" THEN s
    ELSE removeFrom(removeComponent(s, cid, eid), cid + 1, eid)

\* the removal loop run from the highest cid down
RECURSIVE removeDownFrom(_, _, _)
removeDownFrom(s, cid, eid) ==
    IF cid < 0 \/ s.out # "ok" THEN s
    ELSE removeDownFrom(removeComponent(s, cid, eid), cid - 1, eid)

\* destroyNow removing the components by descending cid
destroyNow_descending(s, eid) ==
    IF s.out # "ok" \/ eid = 0 THEN s
    ELSE LET s1 == removeDownFrom(s, numCids - 1, eid) IN
         IF s1.out # "ok" THEN s1
         ELSE IF s1.entities = nullptr \/ eid >= kMaxEntities THEN Undefined(s1)
         ELSE [s1 EXCEPT !.entities[eid] = FALSE]

\* destroyNow clearing the liveness flag without removing the entity's components
destroyNow_skipsComponents(s, eid) ==
    IF s.out # "ok" \/ eid = 0 THEN s
    ELSE IF s.entities = nullptr \/ eid >= kMaxEntities THEN Undefined(s)
    ELSE [s EXCEPT !.entities[eid] = FALSE]

destroyNow(s, eid) ==
    IF s.out # "ok" \/ eid = 0 THEN s
    ELSE LET s1 == removeFrom(s, 0, eid) IN
         IF s1.out # "ok" THEN s1
         ELSE IF s1.entities = nullptr \/ eid >= kMaxEntities THEN Undefined(s1)
         ELSE [s1 EXCEPT !.entities[eid] = FALSE]

\* for (Eid eid = 1; eid < kMaxEntities; ++eid) if (entities[eid]) destroyNow(eid), from eid on
RECURSIVE destroyFrom(_, _)
destroyFrom(s, eid) ==
    IF eid >= kMaxEntities \/ s.out # "ok" THEN s
    ELSE IF s.entities = nullptr THEN Undefined(s)
    ELSE destroyFrom(IF s.entities[eid] THEN destroyNow(s, eid) ELSE s, eid + 1)

\* destroyAll starting its loop at eid 2
destroyAll_skipsFirst(s) == destroyFrom(s, 2)

destroyAll(s) == destroyFrom(s, 1)

\* dealloc leaving the pointer to the dense lists set
dealloc_keepsEids(s) ==
    LET s1 == IF s.components # nullptr THEN destroyAll(s) ELSE s IN
    IF s1.out # "ok" THEN s1
    ELSE [s1 EXCEPT !.entities = nullptr, !.components = nullptr]

\* dealloc doing nothing
dealloc_nothing(s) == s

\* dealloc freeing the tables without destroying the components they hold
dealloc_leaks(s) ==
    [s EXCEPT !.entities = nullptr, !.components = nullptr, !.componentEids = nullptr]

dealloc(s) ==
    LET s1 == IF s.components # nullptr THEN destroyAll(s) ELSE s IN
    IF s1.out # "ok" THEN s1
    ELSE [s1 EXCEPT !.entities = nullptr, !.components = nullptr, !.componentEids = nullptr]

\* for (; eid < kMaxEntities && entities[eid]; ++eid) {}
RECURSIVE scanFree(_, _)
scanFree(ents, eid) ==
    IF eid < kMaxEntities /\ ents[eid] THEN scanFree(ents, eid + 1) ELSE eid

\* create always issuing id 1
create_reissuesFirst(s) ==
    LET s1 == alloc(s) IN [s1 EXCEPT !.entities[1] = TRUE, !.ret = 1]

\* create returning the scan's end value at exhaustion (no eid = 0)
create_keepsEid(s) ==
    LET s1 == alloc(s)
        eid == scanFree(s1.entities, 1) IN
    IF eid < 1 \/ eid >= kMaxEntities
    THEN LET s2 == AssertFalse(s1) IN
         IF s2.out # "ok" THEN s2 ELSE [s2 EXCEPT !.ret = eid]
    ELSE [s1 EXCEPT !.entities[eid] = TRUE, !.ret = eid]

\* create taking the first free id after the highest live one
create_afterHighest(s) ==
    LET s1 == alloc(s)
        live == {e \in 1 .. (kMaxEntities - 1) : s1.entities[e]}
        top == IF live = {} THEN 0 ELSE CHOOSE e \in live : \A f \in live : f <= e
        eid == IF top + 1 < kMaxEntities THEN top + 1 ELSE scanFree(s1.entities, 1) IN
    IF eid < 1 \/ eid >= kMaxEntities
    THEN LET s2 == AssertFalse(s1) IN
         IF s2.out # "ok" THEN s2 ELSE [s2 EXCEPT !.ret = 0]
    ELSE [s1 EXCEPT !.entities[eid] = TRUE, !.ret = eid]

create(s) ==
    LET s1 == alloc(s)
        eid == scanFree(s1.entities, 1) IN
    IF eid < 1 \/ eid >= kMaxEntities
    THEN LET s2 == AssertFalse(s1) IN
         IF s2.out # "ok" THEN s2 ELSE [s2 EXCEPT !.ret = 0]
    ELSE [s1 EXCEPT !.entities[eid] = TRUE, !.ret = eid]

\* Entity::addComponents(eid, c, args...): addComponent(C::cid, eid, c), then the rest of
\* the pack; args is the pack as a sequence of <<C::cid, c>>
RECURSIVE addComponents(_, _, _)
addComponents(s, eid, args) ==
    IF s.out # "ok" \/ args = <<>> THEN s
    ELSE addComponents(addComponent(s, Head(args)[1], eid, Head(args)[2]), eid, Tail(args))

\* create(args...) adding the pack from its last argument to its first
createArgs_reversed(s, args) ==
    LET s1 == create(s) IN
    IF s1.out # "ok" THEN s1
    ELSE LET s2 == addComponents(s1, s1.ret,
                       [i \in 1 .. Len(args) |-> args[Len(args) + 1 - i]]) IN
         IF s2.out # "ok" THEN s2 ELSE [s2 EXCEPT !.ret = s1.ret]

\* Entity::create(Args... args): auto eid = Entity::create(); Entity::addComponents(eid, args...); return eid
createArgs(s, args) ==
    LET s1 == create(s) IN
    IF s1.out # "ok" THEN s1
    ELSE LET s2 == addComponents(s1, s1.ret, args) IN
         IF s2.out # "ok" THEN s2 ELSE [s2 EXCEPT !.ret = s1.ret]

\* Entity::getComponent: the bounds check (kTrustPointers == 0), then components[cid][eid]
getComponent(s, cid, eid) ==
    IF eid < kMaxEntities /\ cid < numCids
    THEN IF s.components = nullptr THEN Undefined(s)
         ELSE [s EXCEPT !.ret = s.components[cid][eid]]
    ELSE [s EXCEPT !.ret = NoComponent]

\* the static ComponentClass s of Entity::get<ComponentClass>, one per component class
Sentinel(cid) == 0 - (cid + 1)

\* Cid HealthComponent::cid = _id++, the first class id
HealthCid == 0

\* the component objects: the instances made with new and the static default instances
Objects == Pointers \cup {Sentinel(cid) : cid \in Cids}

\* HealthComponent(int _hp, int _maxHP); HealthComponent() is HealthComponent(0, 0)
HealthComponent(hp, maxHP) == [hp |-> hp, maxHP |-> maxHP]

\* HealthComponent::empty()
empty(c) == c.maxHP = 0

\* get<ComponentClass> returning a default instance of its own for each eid it misses
get_perEid(s, cid, eid) ==
    LET s1 == getComponent(s, cid, eid) IN
    IF s1.out # "ok" THEN s1
    ELSE IF s1.ret # NoComponent THEN s1
    ELSE [s1 EXCEPT !.ret = Sentinel(cid) - numCids * eid]

\* Entity::get<ComponentClass>(eid), ComponentClass::cid being cid
get(s, cid, eid) ==
    LET s1 == getComponent(s, cid, eid) IN
    IF s1.out # "ok" THEN s1
    ELSE IF s1.ret # NoComponent THEN s1
    ELSE [s1 EXCEPT !.ret = Sentinel(cid)]

\* Entity::getAll(cid): the dense list, or the static blankEids
getAll(s, cid) ==
    IF s.componentEids # nullptr /\ cid < numCids THEN s.componentEids[cid] ELSE <<>>

\* Entity::count(): if (entities != nullptr) for (eid = 1; eid < kMaxEntities; ++eid) if (entities[eid]) ++ret
count(s) ==
    IF s.entities # nullptr
    THEN Cardinality({eid \in 1 .. (kMaxEntities - 1) : s.entities[eid]})
    ELSE 0

\* Entity::count(cid)
countCid(s, cid) == Len(getAll(s, cid))

\* Entity::exists(eid): entities != nullptr && entities[eid]
exists(s, eid) ==
    IF s.entities = nullptr THEN [s EXCEPT !.ret = FALSE]
    ELSE IF eid >= kMaxEntities THEN Undefined(s)
    ELSE [s EXCEPT !.ret = s.entities[eid]]

\* no call is pending: the caller is between two calls
NoCall == [op |-> "none"]

\* the record of a call made on the current storage that ended in state s
Call(op, cid, eid, c, s) ==
    [op |-> op, cid |-> cid, eid |-> eid, c |-> c, ret |-> s.ret, out |-> s.out,
     dlog |-> s.dlog,
     pre |-> [entities |-> entities, components |-> components,
              componentEids |-> componentEids, deleted |-> deleted]]

\* the storage and the heap after a call that ended in state s
Store(s) ==
    /\ entities' = s.entities
    /\ components' = s.components
    /\ componentEids' = s.componentEids
    /\ deleted' = s.deleted

Init ==
    /\ entities = nullptr
    /\ components = nullptr
    /\ componentEids = nullptr
    /\ deleted = [p \in Pointers |-> 0]
    /\ numNew = 0
    /\ ndebug \in BOOLEAN
    /\ last = NoCall
    /\ health = [o \in Objects |-> HealthComponent(0, 0)]
    /\ pc = "caller"
    /\ tickAll = <<>>
    /\ pos = 0
    /\ ticks = 0
    /\ visited = <<>>
    /\ stale = FALSE
    /\ minEids = nullptr
    /\ maxEids = nullptr

\* the caller makes its next call once it has taken the result of the one before
Idle == last.op = "none"

CallAlloc ==
    /\ Idle
    /\ LET s == alloc(State) IN Store(s) /\ last' = Call("alloc", 0, 0, 0, s)
    /\ UNCHANGED <<numNew, ndebug>>
    /\ UNCHANGED <<mainVars, rangeVars>>

CallDealloc ==
    /\ Idle
    /\ LET s == dealloc(State) IN Store(s) /\ last' = Call("dealloc", 0, 0, 0, s)
    /\ UNCHANGED <<numNew, ndebug>>
    /\ UNCHANGED <<mainVars, rangeVars>>

CallCreate ==
    /\ Idle
    /\ LET s == create(State) IN Store(s) /\ last' = Call("create", 0, 0, 0, s)
    /\ UNCHANGED <<numNew, ndebug>>
    /\ UNCHANGED <<mainVars, rangeVars>>

CallDestroyNow ==
    /\ Idle
    /\ \E eid \in EidArgs :
        LET s == destroyNow(State, eid) IN Store(s) /\ last' = Call("destroyNow", 0, eid, 0, s)
    /\ UNCHANGED <<numNew, ndebug>>
    /\ UNCHANGED <<mainVars, rangeVars>>

CallDestroyAll ==
    /\ Idle
    /\ LET s == destroyAll(State) IN Store(s) /\ last' = Call("destroyAll", 0, 0, 0, s)
    /\ UNCHANGED <<numNew, ndebug>>
    /\ UNCHANGED <<mainVars, rangeVars>>

\* whether state s holds instance c in some slot
Holds(s, c) ==
    /\ s.components # nullptr
    /\ \E cid \in Cids, eid \in Eids : s.components[cid][eid] = c

\* addComponent(cid, eid, c) with c an instance allocated with new that the engine does
\* not own yet; an instance the engine did not take stays with the caller
CallAddComponent ==
    /\ Idle
    /\ numNew < MaxNew
    /\ \E cid \in CidArgs, eid \in EidArgs :
        LET c == numNew + 1
            s == addComponent(State, cid, eid, c) IN
        /\ Store(s)
        /\ last' = Call("addComponent", cid, eid, c, s)
        /\ numNew' = IF Holds(s, c) THEN numNew + 1 ELSE numNew
    /\ UNCHANGED ndebug
    /\ UNCHANGED <<mainVars, rangeVars>>

\* the packs a caller passes to create(args...): one or two arguments, each of a component
\* class (its cid) and either a fresh instance (TRUE) or a null pointer of that class
Packs == UNION {[1 .. n -> Cids \X BOOLEAN] : n \in 1 .. 2}

\* the fresh instances of a pack, numbered in argument order after the numNew taken so far
NewIn(pack, i) == Cardinality({j \in 1 .. i : pack[j][2]})

ArgsOf(pack) ==
    [i \in 1 .. Len(pack) |->
        <<pack[i][1], IF pack[i][2] THEN numNew + NewIn(pack, i) ELSE NoComponent>>]

\* whether state s took instance c: it holds it or has deleted it
Took(s, c) == Holds(s, c) \/ s.deleted[c] > 0

\* Entity::create(c1, ..., cn)
CallCreateArgs ==
    /\ Idle
    /\ \E pack \in Packs :
        /\ numNew + NewIn(pack, Len(pack)) <= MaxNew
        /\ LET args == ArgsOf(pack)
               s == createArgs(State, args) IN
           /\ Store(s)
           /\ last' = [Call("createArgs", 0, 0, 0, s) EXCEPT !.c = args]
           /\ numNew' = numNew + Cardinality({p \in (numNew + 1) .. MaxNew : Took(s, p)})
    /\ UNCHANGED ndebug
    /\ UNCHANGED <<mainVars, rangeVars>>

\* addComponent(cid, eid, nullptr)
CallAddNull ==
    /\ Idle
    /\ \E cid \in CidArgs, eid \in EidArgs :
        LET s == addComponent(State, cid, eid, NoComponent) IN
        Store(s) /\ last' = Call("addComponent", cid, eid, NoComponent, s)
    /\ UNCHANGED <<numNew, ndebug>>
    /\ UNCHANGED <<mainVars, rangeVars>>

CallRemoveComponent ==
    /\ Idle
    /\ \E cid \in CidArgs, eid \in EidArgs :
        LET s == removeComponent(State, cid, eid) IN
        Store(s) /\ last' = Call("removeComponent", cid, eid, 0, s)
    /\ UNCHANGED <<numNew, ndebug>>
    /\ UNCHANGED <<mainVars, rangeVars>>

CallGetComponent ==
    /\ Idle
    /\ \E cid \in CidArgs, eid \in EidArgs :
        last' = Call("getComponent", cid, eid, 0, getComponent(State, cid, eid))
    /\ UNCHANGED <<entities, components, componentEids, deleted, numNew, ndebug>>
    /\ UNCHANGED <<mainVars, rangeVars>>

\* get<ComponentClass>(eid): cid is the class's own cid, always a valid one
CallGet ==
    /\ Idle
    /\ \E cid \in Cids, eid \in EidArgs :
        last' = Call("get", cid, eid, 0, get(State, cid, eid))
    /\ UNCHANGED <<entities, components, componentEids, deleted, numNew, ndebug>>
    /\ UNCHANGED <<mainVars, rangeVars>>

CallGetAll ==
    /\ Idle
    /\ \E cid \in CidArgs :
        last' = Call("getAll", cid, 0, 0, [State EXCEPT !.ret = getAll(State, cid)])
    /\ UNCHANGED <<entities, components, componentEids, deleted, numNew, ndebug>>
    /\ UNCHANGED <<mainVars, rangeVars>>

CallCount ==
    /\ Idle
    /\ last' = Call("count", 0, 0, 0, [State EXCEPT !.ret = count(State)])
    /\ UNCHANGED <<entities, components, componentEids, deleted, numNew, ndebug>>
    /\ UNCHANGED <<mainVars, rangeVars>>

CallCountCid ==
    /\ Idle
    /\ \E cid \in CidArgs :
        last' = Call("countCid", cid, 0, 0, [State EXCEPT !.ret = countCid(State, cid)])
    /\ UNCHANGED <<entities, components, componentEids, deleted, numNew, ndebug>>
    /\ UNCHANGED <<mainVars, rangeVars>>

CallExists ==
    /\ Idle
    /\ \E eid \in EidArgs :
        last' = Call("exists", 0, eid, 0, exists(State, eid))
    /\ UNCHANGED <<entities, components, componentEids, deleted, numNew, ndebug>>
    /\ UNCHANGED <<mainVars, rangeVars>>

\* the caller takes the result (or catches what Assert threw) and goes on; after
\* undefined behaviour there is no defined continuation
Return ==
    /\ ~Idle
    /\ last.out # "ub"
    /\ last' = NoCall
    /\ UNCHANGED <<entities, components, componentEids, deleted, numNew, ndebug>>
    /\ UNCHANGED <<mainVars, rangeVars>>
Next ==
    \/ CallAlloc
    \/ CallDealloc
    \/ CallCreate
    \/ CallDestroyNow
    \/ CallDestroyAll
    \/ CallCreateArgs
    \/ CallAddComponent
    \/ CallAddNull
    \/ CallRemoveComponent
    \/ CallGetComponent
    \/ CallGet
    \/ CallGetAll
    \/ CallCount
    \/ CallCountCid
    \/ CallExists
    \/ Return

Spec == Init /\ [][Next]_vars

\* ---- the example program of main.cpp: main() and HealthSystem::tick ----

\* the hit points main() constructs its two entities with range over 1 .. MaxHP and the
\* values of main.cpp, 100 for the first entity and 7 for the second
MaxHP == 3

\* the loop body leaving hp as it is
decrement_none(c) == c

\* e.health.hp--; if (e.health.hp < 0) e.health.hp = 0;
decrement(c) == [c EXCEPT !.hp = IF c.hp - 1 < 0 THEN 0 ELSE c.hp - 1]

\* a range-for over a reference to the engine's own dense list instead of the copy
iterated_reference(copy, s) == getAll(s, HealthCid)

\* the list the range-for of tick goes through: `all`, the copy made before the loop
iterated(copy, s) == copy

MainInit ==
    /\ entities = nullptr
    /\ components = nullptr
    /\ componentEids = nullptr
    /\ deleted = [p \in Pointers |-> 0]
    /\ numNew = 0
    /\ ndebug \in BOOLEAN
    /\ last = NoCall
    /\ health = [o \in Objects |-> HealthComponent(0, 0)]
    /\ pc = "create1"
    /\ tickAll = <<>>
    /\ pos = 0
    /\ ticks = 0
    /\ visited = <<>>
    /\ stale = FALSE
    /\ minEids = nullptr
    /\ maxEids = nullptr

\* Entity::create(new HealthComponent(n, n)), main's first two statements
MainCreate ==
    /\ pc \in {"create1", "create2"}
    /\ \E n \in (1 .. MaxHP) \cup {IF pc = "create1" THEN 100 ELSE 7} :
        LET c == numNew + 1
            s == createArgs(State, <<(<<HealthCid, c>>)>>) IN
        /\ Store(s)
        /\ health' = [health EXCEPT ![c] = HealthComponent(n, n)]
        /\ numNew' = c
        /\ pc' = IF s.out # "ok" THEN "crashed"
                 ELSE IF pc = "create1" THEN "create2" ELSE "while"
    /\ UNCHANGED <<ndebug, last, tickAll, pos, ticks, visited, stale>>
    /\ UNCHANGED rangeVars

\* while (Entity::count()) is true: HealthSystem::tick is called and copies the list
TickBegin ==
    /\ pc = "while"
    /\ count(State) # 0
    /\ tickAll' = getAll(State, HealthCid)
    /\ pos' = 1
    /\ visited' = <<>>
    /\ pc' = "for"
    /\ UNCHANGED <<entities, components, componentEids, deleted, numNew, ndebug, last,
                   health, ticks, stale>>
    /\ UNCHANGED rangeVars

\* one pass of the loop body of tick for the eid at pos: Ent e(eid) binds e.health to
\* get<HealthComponent>(eid); an empty component is skipped, any other is decremented and
\* its entity destroyed when hp is 0
TickBody ==
    /\ pc = "for"
    /\ pos <= Len(iterated(tickAll, State))
    /\ LET eid == iterated(tickAll, State)[pos]
           e == get(State, HealthCid, eid)
           ref == e.ret IN
       IF e.out # "ok"
       THEN /\ pc' = "crashed"
            /\ UNCHANGED <<entities, components, componentEids, deleted, health, pos,
                           visited, stale>>
       ELSE /\ pos' = pos + 1
            /\ visited' = Append(visited, eid)
            /\ stale' = (stale \/ (ref \in Pointers /\ deleted[ref] > 0))
            /\ pc' = pc
            /\ IF empty(health[ref])
               THEN UNCHANGED <<entities, components, componentEids, deleted, health>>
               ELSE LET c == decrement(health[ref]) IN
                    /\ health' = [health EXCEPT ![ref] = c]
                    /\ IF c.hp <= 0
                       THEN Store(destroyNow(State, eid))
                       ELSE UNCHANGED <<entities, components, componentEids, deleted>>
    /\ UNCHANGED <<numNew, ndebug, last, tickAll, ticks>>
    /\ UNCHANGED rangeVars

\* the range-for is through: tick returns, main sleeps and tests the loop again
TickEnd ==
    /\ pc = "for"
    /\ pos > Len(iterated(tickAll, State))
    /\ ticks' = ticks + 1
    /\ pc' = "while"
    /\ UNCHANGED <<entities, components, componentEids, deleted, numNew, ndebug, last,
                   health, tickAll, pos, visited, stale>>
    /\ UNCHANGED rangeVars

\* while (Entity::count()) is false: the loop is left
LoopExit ==
    /\ pc = "while"
    /\ count(State) = 0
    /\ pc' = "dealloc"
    /\ UNCHANGED <<entities, components, componentEids, deleted, numNew, ndebug, last,
                   health, tickAll, pos, ticks, visited, stale>>
    /\ UNCHANGED rangeVars

\* Entity::dealloc(); return 0
MainDealloc ==
    /\ pc = "dealloc"
    /\ LET s == dealloc(State) IN
        /\ Store(s)
        /\ pc' = IF s.out # "ok" THEN "crashed" ELSE "done"
    /\ UNCHANGED <<numNew, ndebug, last, health, tickAll, pos, ticks, visited, stale>>
    /\ UNCHANGED rangeVars

MainNext ==
    \/ MainCreate
    \/ TickBegin
    \/ TickBody
    \/ TickEnd
    \/ LoopExit
    \/ MainDealloc

MainSpec == MainInit /\ [][MainNext]_vars

\* main() is one thread of sequential code: it takes its next step whenever it has one
MainFairSpec == MainInit /\ [][MainNext]_vars /\ WF_vars(MainNext)

\* ---- the min/max revision of EntityFu.cpp: per class the range minEids[cid] .. maxEids[cid]
\* that forAllEntities goes through, instead of a dense list ----

\* enum {kMaxEid = 4096}, scaled down like kMaxEntities
kMaxEid == kMaxEntities

\* the tables of the min/max revision and the progress of the running call
mmState == [entities |-> entities, components |-> components, minEids |-> minEids,
            maxEids |-> maxEids, deleted |-> deleted, out |-> "ok", ret |-> 0]

\* Entity::alloc(): minEids[i] = kMaxEid - 1; maxEids[i] = 0
mmAlloc(s) ==
    IF s.components # nullptr THEN s
    ELSE [s EXCEPT !.entities = [eid \in Eids |-> FALSE],
                   !.components = [cid \in Cids |-> [eid \in Eids |-> NoComponent]],
                   !.minEids = [cid \in Cids |-> kMaxEid - 1],
                   !.maxEids = [cid \in Cids |-> 0]]

\* Entity::create(): the first id of 1 .. kMaxEid - 1 that is not live; when there is
\* none, nothing is marked and kMaxEid is returned
mmCreate(s) ==
    LET s1 == mmAlloc(s)
        eid == scanFree(s1.entities, 1) IN
    IF eid < 1 \/ eid >= kMaxEid THEN [s1 EXCEPT !.ret = eid]
    ELSE [s1 EXCEPT !.entities[eid] = TRUE, !.ret = eid]

\* Entity::addComponent(eid, c, cid): the slot is overwritten, the range widened
mmAddComponent(s, eid, c, cid) ==
    IF c = NoComponent THEN s
    ELSE IF eid >= kMaxEid /\ cid >= numCids THEN s
    ELSE IF s.components = nullptr \/ eid >= kMaxEid \/ cid >= numCids THEN Undefined(s)
    ELSE [s EXCEPT !.components[cid][eid] = c,
                   !.minEids[cid] = IF eid < @ THEN eid ELSE @,
                   !.maxEids[cid] = IF eid > @ THEN eid ELSE @]

\* for (; i < kMaxEid - 1 && components[cid][i] == nullptr; i++) {}
RECURSIVE scanUp(_, _)
scanUp(row, i) ==
    IF i < kMaxEid - 1 /\ row[i] = NoComponent THEN scanUp(row, i + 1) ELSE i

\* for (; i > 1 && i < kMaxEid - 1 && components[cid][i] == nullptr; i--) {}
RECURSIVE scanDown(_, _)
scanDown(row, i) ==
    IF i > 1 /\ i < kMaxEid - 1 /\ row[i] = NoComponent THEN scanDown(row, i - 1) ELSE i

\* Entity::removeComponent(eid, cid): delete, clear the slot, then update min / max
mmRemoveComponent(s, eid, cid) ==
    IF s.out # "ok" THEN s
    ELSE IF eid >= kMaxEid /\ cid >= numCids THEN s
    ELSE IF s.components = nullptr \/ eid >= kMaxEid \/ cid >= numCids THEN Undefined(s)
    ELSE LET ptr == s.components[cid][eid] IN
         IF ptr = NoComponent THEN s
         ELSE LET row == [s.components[cid] EXCEPT ![eid] = NoComponent] IN
              [s EXCEPT !.deleted[ptr] = @ + 1,
                        !.components[cid] = row,
                        !.minEids[cid] = IF eid = @ THEN scanUp(row, eid) ELSE @,
                        !.maxEids[cid] = IF eid = @ THEN scanDown(row, eid) ELSE @]

\* for (Cid cid = 0; cid < Component::numCids; cid++) Entity::removeComponent(eid, cid)
RECURSIVE mmRemoveFrom(_, _, _)
mmRemoveFrom(s, cid, eid) ==
    IF cid >= numCids THEN s
    ELSE mmRemoveFrom(mmRemoveComponent(s, eid, cid), cid + 1, eid)

\* Entity::destroyNow(eid)
mmDestroyNow(s, eid) ==
    IF eid = 0 THEN s
    ELSE LET s1 == mmRemoveFrom(s, 0, eid) IN
         IF s1.out # "ok" THEN s1
         ELSE IF s1.entities = nullptr \/ eid >= kMaxEid THEN Undefined(s1)
         ELSE [s1 EXCEPT !.entities[eid] = FALSE]

\* Entity::getMinEid(cid)
getMinEid(s, cid) ==
    IF cid >= numCids THEN [s EXCEPT !.ret = kMaxEid - 1]
    ELSE IF s.minEids = nullptr THEN Undefined(s)
    ELSE [s EXCEPT !.ret = s.minEids[cid]]

\* Entity::getMaxEid(cid)
getMaxEid(s, cid) ==
    IF cid >= numCids THEN [s EXCEPT !.ret = 1]
    ELSE IF s.maxEids = nullptr THEN Undefined(s)
    ELSE [s EXCEPT !.ret = s.maxEids[cid]]

\* Entity::count(cid): the slots of getMinEid(cid) .. getMaxEid(cid) that hold a component
mmCount(s, cid) ==
    Cardinality({eid \in getMinEid(s, cid).ret .. getMaxEid(s, cid).ret :
                    s.components[cid][eid] # NoComponent})

\* the tables after a call of the min/max revision that ended in state s; a call that
\* ran into undefined behaviour ends the run
mmStore(s) ==
    /\ entities' = s.entities
    /\ components' = s.components
    /\ minEids' = s.minEids
    /\ maxEids' = s.maxEids
    /\ deleted' = s.deleted
    /\ last' = IF s.out = "ok" THEN NoCall ELSE [op |-> s.out]
    /\ UNCHANGED <<componentEids, ndebug, mainVars>>

mmInit ==
    /\ entities = nullptr
    /\ components = nullptr
    /\ componentEids = nullptr
    /\ minEids = nullptr
    /\ maxEids = nullptr
    /\ deleted = [p \in Pointers |-> 0]
    /\ numNew = 0
    /\ ndebug \in BOOLEAN
    /\ last = NoCall
    /\ health = [o \in Objects |-> HealthComponent(0, 0)]
    /\ pc = "caller"
    /\ tickAll = <<>>
    /\ pos = 0
    /\ ticks = 0
    /\ visited = <<>>
    /\ stale = FALSE

mmCallCreate ==
    /\ Idle
    /\ mmStore(mmCreate(mmState))
    /\ UNCHANGED numNew

\* addComponent(eid, c, cid) with c a fresh instance, for any id of the table and any class
mmCallAddComponent ==
    /\ Idle
    /\ numNew < MaxNew
    /\ \E cid \in Cids, eid \in Eids \ {0} :
        LET s == mmAddComponent(mmState, eid, numNew + 1, cid) IN
        /\ mmStore(s)
        /\ numNew' = IF s.out = "ok" THEN numNew + 1 ELSE numNew

mmCallRemoveComponent ==
    /\ Idle
    /\ \E cid \in Cids, eid \in Eids :
        mmStore(mmRemoveComponent(mmState, eid, cid))
    /\ UNCHANGED numNew

mmCallDestroyNow ==
    /\ Idle
    /\ \E eid \in Eids :
        mmStore(mmDestroyNow(mmState, eid))
    /\ UNCHANGED numNew

mmNext ==
    \/ mmCallCreate
    \/ mmCallAddComponent
    \/ mmCallRemoveComponent
    \/ mmCallDestroyNow

mmSpec == mmInit /\ [][mmNext]_vars

(***************************************************************************)
(* Properties                                                              *)
(***************************************************************************)

Called(op) == last.op = op

Allocated(st) == st.components # nullptr

\* how often x occurs in seq
Occurrences(seq, x) == Cardinality({i \in 1 .. Len(seq) : seq[i] = x})

\* seq without its entries equal to x, the others in place
Without(seq, x) == LET Keep(y) == y # x IN SelectSeq(seq, Keep)

\* the dense list of cid in a stored storage record
ListOf(st, cid) == IF st.componentEids = nullptr THEN <<>> ELSE st.componentEids[cid]

\* the slot [cid][eid] of a stored storage record
SlotOf(st, cid, eid) == IF st.components = nullptr THEN NoComponent ELSE st.components[cid][eid]

\* whether eid is live in a stored storage record
LiveIn(st, eid) == st.entities # nullptr /\ eid \in Eids /\ st.entities[eid]

\* getComponent(cid, eid) returns a component in state s
PresentIn(s, cid, eid) ==
    LET r == getComponent(s, cid, eid) IN r.out = "ok" /\ r.ret # NoComponent

\* getComponent(cid, eid) returns a component
Present(cid, eid) == PresentIn(State, cid, eid)

\* C1: sparse/dense consistency: in every reachable state, for every component type
\* and every entity id, the id is in getAll(cid) iff getComponent(cid, eid) returns a
\* component, and it is in getAll(cid) at most once. Stated for the engine between calls:
\* a returned call leaves the tables it stored
C1_SparseDenseConsistency ==
    Idle =>
    LET s == State IN
    \A cid \in Cids :
        LET all == getAll(s, cid) IN
        /\ \A i \in 1 .. Len(all) :
            /\ all[i] \in Eids
            /\ PresentIn(s, cid, all[i])
            /\ \A j \in (i + 1) .. Len(all) : all[j] # all[i]
        /\ \A eid \in Eids :
            PresentIn(s, cid, eid) => \E i \in 1 .. Len(all) : all[i] = eid

\* C1 witness: a component was replaced while another entity holds the same type
C1_Witness ==
    /\ Called("addComponent")
    /\ last.dlog # <<>>
    /\ Len(getAll(State, last.cid)) >= 2
    /\ Present(last.cid, last.eid)

\* C2: uniqueness: a successful create() returns an id that was not live immediately
\* before the call, marks it live and leaves every other id's liveness as it was
C2_CreateReturnsFreshId ==
    (Called("create") /\ last.out = "ok" /\ last.ret # 0) =>
        /\ last.ret \in 1 .. (kMaxEntities - 1)
        /\ ~LiveIn(last.pre, last.ret)
        /\ exists(State, last.ret).ret = TRUE
        /\ \A eid \in Eids \ {last.ret} : entities[eid] = LiveIn(last.pre, eid)

\* C2 witness: id 1 is issued again, after its holder was destroyed, while 2 is live
C2_Witness ==
    /\ Called("create")
    /\ last.ret = 1
    /\ LiveIn(last.pre, 2)
    /\ entities[1] /\ entities[2]

\* the deletions destroyNow(eid) owes on storage st: the entity's components, by ascending cid
RECURSIVE OwedFrom(_, _, _)
OwedFrom(st, cid, eid) ==
    IF cid >= numCids THEN <<>>
    ELSE (IF SlotOf(st, cid, eid) # NoComponent
          THEN <<(<<cid, eid, SlotOf(st, cid, eid)>>)>> ELSE <<>>)
         \o OwedFrom(st, cid + 1, eid)

\* C3: cascade destruction: destroyNow(eid) on a live entity returns normally, deletes the
\* entity's components in ascending cid order, and leaves the id out of every getAll(cid),
\* every getComponent(cid, eid) absent and exists(eid) false
C3_CascadeDestruction ==
    (Called("destroyNow") /\ LiveIn(last.pre, last.eid)) =>
        /\ last.out = "ok"
        /\ last.dlog = OwedFrom(last.pre, 0, last.eid)
        /\ \A cid \in Cids :
            /\ Occurrences(getAll(State, cid), last.eid) = 0
            /\ getComponent(State, cid, last.eid).ret = NoComponent
        /\ exists(State, last.eid).ret = FALSE

\* C3 witness: an entity holding a component of each of two types was destroyed
C3_Witness ==
    /\ Called("destroyNow")
    /\ LiveIn(last.pre, last.eid)
    /\ Len(last.dlog) >= 2

\* C4: replace semantics: addComponent(cid, eid, c2) on a live entity that holds c1 of that
\* type deletes c1 exactly once, makes getComponent(cid, eid) return c2 and leaves exactly
\* one entry for eid in getAll(cid)
C4_ReplaceSemantics ==
    (/\ Called("addComponent") /\ last.c # NoComponent
     /\ last.cid \in Cids /\ LiveIn(last.pre, last.eid)
     /\ SlotOf(last.pre, last.cid, last.eid) # NoComponent) =>
        LET c1 == SlotOf(last.pre, last.cid, last.eid) IN
        /\ last.out = "ok"
        /\ last.dlog = <<(<<last.cid, last.eid, c1>>)>>
        /\ deleted[c1] = 1
        /\ \A p \in Pointers \ {c1} : deleted[p] = last.pre.deleted[p]
        /\ ~Holds(State, c1)
        /\ getComponent(State, last.cid, last.eid).ret = last.c
        /\ Occurrences(getAll(State, last.cid), last.eid) = 1

\* C4 witness: a component was added to an entity that already held one of that type
C4_Witness ==
    /\ Called("addComponent") /\ last.c # NoComponent
    /\ last.cid \in Cids /\ LiveIn(last.pre, last.eid)
    /\ SlotOf(last.pre, last.cid, last.eid) # NoComponent
    /\ last.out = "ok"

\* C5: no component is attached to an id that is not live: in every allocated state,
\* getComponent(cid, eid) is absent for every type and every id that is not live, id 0 and
\* ids past the range included. Stated for the engine between calls: a returned call
\* leaves the tables it stored
C5_NothingOnDeadIds ==
    Idle =>
    LET s == State IN
    Allocated(s) =>
        /\ ~s.entities[0]
        /\ \A eid \in EidArgs :
            ~LiveIn(s, eid) =>
                \A cid \in Cids :
                    LET r == getComponent(s, cid, eid) IN
                    r.out = "ok" /\ r.ret = NoComponent

\* C5 witness: an entity that held components is no longer live
C5_Witness ==
    /\ Called("destroyNow")
    /\ last.dlog # <<>>
    /\ Allocated(State)
    /\ ~LiveIn(State, last.eid)

\* every id of 1 .. kMaxEntities - 1 is live in a stored storage record
Full(st) == \A eid \in 1 .. (kMaxEntities - 1) : LiveIn(st, eid)

\* the liveness table create() works on: the stored one, or the fresh one alloc() makes
TableOf(st) == IF st.entities = nullptr THEN [eid \in Eids |-> FALSE] ELSE st.entities

\* create() while an id is free: it returns normally an id of 1 .. kMaxEntities - 1 that
\* was not live, and marks that id live and no other
CreateSucceeds ==
    /\ last.out = "ok"
    /\ last.ret \in 1 .. (kMaxEntities - 1)
    /\ ~LiveIn(last.pre, last.ret)
    /\ entities = [TableOf(last.pre) EXCEPT ![last.ret] = TRUE]

\* C6 as stated: create() succeeds with a new id of [1, kMaxEntities) as long as an id is
\* free (so kMaxEntities - 1 consecutive calls on an engine without live entities return
\* pairwise distinct ids), and the next create() returns the invalid id 0 and leaves the
\* liveness table unchanged
C6_Original ==
    Called("create") =>
        IF Full(last.pre)
        THEN last.out = "ok" /\ last.ret = 0 /\ entities = last.pre.entities
        ELSE CreateSucceeds

\* C6 amended: as C6_Original, but at exhaustion create() returns 0 only where Assert is
\* compiled out (NDEBUG); where it is not, Assert throws and create() returns nothing;
\* the liveness table is unchanged in both builds
C6_CapacityBoundary ==
    Called("create") =>
        IF Full(last.pre)
        THEN /\ entities = last.pre.entities
             /\ IF ndebug THEN last.out = "ok" /\ last.ret = 0 ELSE last.out = "throw"
        ELSE CreateSucceeds

\* C6 witness: create() was called with every id live and returned 0
C6_Witness ==
    /\ Called("create")
    /\ Full(last.pre)
    /\ last.out = "ok" /\ last.ret = 0
    /\ count(State) = kMaxEntities - 1

\* the engine is in the state it has before first use
Unallocated(st) == st.entities = nullptr /\ st.components = nullptr /\ st.componentEids = nullptr

\* C7: idempotent teardown: dealloc() returns normally and leaves the liveness table, the
\* sparse arrays and the dense lists null, whether the engine was never allocated,
\* allocated without entities, or already torn down
C7_IdempotentTeardown ==
    Called("dealloc") =>
        /\ last.out = "ok"
        /\ Unallocated(State)
        /\ Unallocated(last.pre) => (last.dlog = <<>> /\ deleted = last.pre.deleted)

\* C7 witness: dealloc() was called on an engine that is not allocated
C7_Witness ==
    /\ Called("dealloc")
    /\ Unallocated(last.pre)
    /\ Unallocated(State)

\* the calls other than create and alloc that C8 is about
GuardedOps == {"addComponent", "removeComponent", "getComponent", "get", "getAll",
               "count", "countCid", "exists", "destroyNow", "destroyAll"}

\* C8 as stated: on an engine that is not allocated, every call but create and alloc
\* touches no unallocated storage and leaves the engine unallocated
C8_Original ==
    (last.op \in GuardedOps /\ Unallocated(last.pre)) =>
        /\ last.out # "ub"
        /\ Unallocated(State)

\* the smallest id of 1 .. kMaxEntities - 1 that is not live in a stored storage record
LowestFree(st) ==
    CHOOSE eid \in 1 .. (kMaxEntities - 1) :
        /\ ~LiveIn(st, eid)
        /\ \A e \in 1 .. (eid - 1) : LiveIn(st, e)

\* C9: lowest-free-id policy: while an id of 1 .. kMaxEntities - 1 is not live, create()
\* returns the smallest such id and marks exactly that id live
C9_LowestFreeId ==
    (Called("create") /\ ~Full(last.pre)) =>
        /\ last.out = "ok"
        /\ last.ret = LowestFree(last.pre)
        /\ entities = [TableOf(last.pre) EXCEPT ![last.ret] = TRUE]

\* C9 witness: id 2, freed while 1 and 3 stay live, is issued again
C9_Witness ==
    /\ Called("create")
    /\ last.ret = 2
    /\ LiveIn(last.pre, 1) /\ LiveIn(last.pre, 3)

\* x comes before y in seq
Before(seq, x, y) ==
    \E i, j \in 1 .. Len(seq) : i < j /\ seq[i] = x /\ seq[j] = y

\* a removeComponent or destroyNow call that the engine acts on
Removal ==
    \/ Called("removeComponent") /\ last.cid \in Cids /\ LiveIn(last.pre, last.eid)
    \/ Called("destroyNow") /\ LiveIn(last.pre, last.eid)

\* the component types a removal is about
RemovedCids == IF Called("removeComponent") THEN {last.cid} ELSE Cids

\* removeComponent and destroyNow erase the id in place: the other ids keep their places
\* relative to each other, and the lists of other types are untouched
ErasedInPlace ==
    Removal =>
        \A cid \in Cids :
            getAll(State, cid) =
                IF cid \in RemovedCids THEN Without(ListOf(last.pre, cid), last.eid)
                ELSE ListOf(last.pre, cid)

\* C10 as stated: removals erase in place, and getAll(cid) is the surviving ids in the
\* order their components were first added: no call changes the order of two ids that
\* hold a component of the type before and after it
C10_Original ==
    /\ ErasedInPlace
    /\ (~Called("none") /\ last.out = "ok") =>
        \A cid \in Cids : \A x, y \in Eids :
            (/\ Before(ListOf(last.pre, cid), x, y)
             /\ Occurrences(getAll(State, cid), x) = 1
             /\ Occurrences(getAll(State, cid), y) = 1) =>
                Before(getAll(State, cid), x, y)

\* C10 amended: removals erase in place, and getAll(cid) is the surviving ids in the order
\* of their latest addComponent: an add that replaces a component moves the id to the
\* end of the list (instances are numbered in the order they are handed over)
C10_InsertionOrder ==
    /\ ErasedInPlace
    /\ \A cid \in Cids :
        LET all == getAll(State, cid) IN
        \A i, j \in 1 .. Len(all) :
            i < j => SlotOf(State, cid, all[i]) < SlotOf(State, cid, all[j])
    /\ (Called("addComponent") /\ last.c # NoComponent /\ Holds(State, last.c)) =>
        getAll(State, last.cid) = Append(Without(ListOf(last.pre, last.cid), last.eid), last.eid)

\* C10 witness: the first of three ids was removed from a dense list
C10_Witness ==
    /\ Called("removeComponent")
    /\ last.dlog # <<>>
    /\ Len(ListOf(last.pre, last.cid)) = 3
    /\ ListOf(last.pre, last.cid)[1] = last.eid
    /\ Len(getAll(State, last.cid)) = 2

\* the engine's tables are those of the stored storage record
SameStorage(st) ==
    /\ entities = st.entities
    /\ components = st.components
    /\ componentEids = st.componentEids

\* an addComponent call with a component that the engine acts on, on an occupied slot
ReplacingAdd ==
    /\ Called("addComponent") /\ last.c # NoComponent
    /\ last.cid \in Cids /\ LiveIn(last.pre, last.eid)
    /\ SlotOf(last.pre, last.cid, last.eid) # NoComponent

\* an addComponent call with a component that the engine acts on, on an absent slot
FreshAdd ==
    /\ Called("addComponent") /\ last.c # NoComponent
    /\ last.cid \in Cids /\ LiveIn(last.pre, last.eid)
    /\ SlotOf(last.pre, last.cid, last.eid) = NoComponent

\* C11 as stated: an addComponent on an occupied slot leaves getAll(cid) the same
\* sequence; the id is appended only when the slot was absent
C11_Original ==
    /\ ReplacingAdd => getAll(State, last.cid) = ListOf(last.pre, last.cid)
    /\ FreshAdd => getAll(State, last.cid) = Append(ListOf(last.pre, last.cid), last.eid)

\* C11 amended: an addComponent on an occupied slot deletes the old instance, stores the
\* new one, erases the id from its place in getAll(cid) and appends it at the end: the
\* list keeps its length and its other entries, in their order; on an absent slot the id
\* is appended; the lists of other types are untouched
C11_ReplaceMovesToEnd ==
    /\ ReplacingAdd =>
        /\ last.dlog = <<(<<last.cid, last.eid, SlotOf(last.pre, last.cid, last.eid)>>)>>
        /\ SlotOf(State, last.cid, last.eid) = last.c
        /\ Len(getAll(State, last.cid)) = Len(ListOf(last.pre, last.cid))
        /\ getAll(State, last.cid) =
               Without(ListOf(last.pre, last.cid), last.eid) \o <<last.eid>>
    /\ FreshAdd =>
        /\ last.dlog = <<>>
        /\ SlotOf(State, last.cid, last.eid) = last.c
        /\ getAll(State, last.cid) = Append(ListOf(last.pre, last.cid), last.eid)
    /\ (ReplacingAdd \/ FreshAdd) =>
        \A cid \in Cids \ {last.cid} : getAll(State, cid) = ListOf(last.pre, cid)

\* C11 witness: the component of the first of two ids in a dense list was replaced
C11_Witness ==
    /\ ReplacingAdd
    /\ Len(ListOf(last.pre, last.cid)) >= 2
    /\ ListOf(last.pre, last.cid)[1] = last.eid
    /\ getAll(State, last.cid)[Len(getAll(State, last.cid))] = last.eid

\* an addComponent call on an allocated engine that the engine must reject
RejectedAdd ==
    /\ Called("addComponent")
    /\ Allocated(last.pre)
    /\ \/ last.c = NoComponent
       \/ last.eid = 0
       \/ ~LiveIn(last.pre, last.eid)
       \/ last.eid >= kMaxEntities
       \/ last.cid >= numCids

\* C12 as stated: a rejected addComponent returns normally, without throwing, and leaves
\* the liveness table, every slot and every dense list unchanged
C12_Original ==
    RejectedAdd =>
        /\ last.out = "ok"
        /\ SameStorage(last.pre)

\* C12 amended: a rejected addComponent leaves the liveness table, every slot and every
\* dense list unchanged and deletes nothing; it returns normally when the component is
\* absent or the build defines NDEBUG, and otherwise the default Assert throws
C12_RejectedAddChangesNothing ==
    RejectedAdd =>
        /\ SameStorage(last.pre)
        /\ deleted = last.pre.deleted
        /\ last.dlog = <<>>
        /\ last.out = IF last.c = NoComponent \/ ndebug THEN "ok" ELSE "throw"

\* C12 witness: a component was offered for an id that is not live, in an NDEBUG build
C12_Witness ==
    /\ RejectedAdd
    /\ last.c # NoComponent
    /\ last.eid \in 1 .. (kMaxEntities - 1)
    /\ last.cid \in Cids
    /\ last.out = "ok"
    /\ count(State) >= 1

\* C13 as stated: on an allocated engine destroyNow(eid) with eid 0 or an eid that is not
\* live (ids past the range included) raises no failure and leaves the liveness table,
\* every slot and every dense list unchanged
C13_Original ==
    (Called("destroyNow") /\ Allocated(last.pre) /\ ~LiveIn(last.pre, last.eid)) =>
        /\ last.out = "ok"
        /\ SameStorage(last.pre)

\* the slots in the order of the sparse table: by cid, then by eid
SlotBefore(cid1, eid1, cid2, eid2) == cid1 < cid2 \/ (cid1 = cid2 /\ eid1 < eid2)

\* C14: exactly-once destruction: every instance the engine accepted is either stored in
\* exactly one slot and not deleted, or stored nowhere and deleted exactly once; no instance
\* is deleted twice or while stored; an instance the engine did not accept is neither
\* stored nor deleted; after dealloc every accepted instance is deleted exactly once.
\* Stated for the engine between calls: a returned call leaves the tables it stored
C14_ExactlyOnceDestruction ==
    Idle =>
    LET s == State IN
    /\ \A p \in Pointers :
        /\ s.deleted[p] <= 1
        /\ p > numNew => s.deleted[p] = 0
        /\ (p <= numNew /\ s.deleted[p] = 0) => Holds(s, p)
    /\ Allocated(s) =>
        \A cid \in Cids, eid \in Eids :
            LET p == s.components[cid][eid] IN
            p # NoComponent =>
                /\ p <= numNew
                /\ s.deleted[p] = 0
                /\ \A cid2 \in Cids, eid2 \in Eids :
                    SlotBefore(cid, eid, cid2, eid2) => s.components[cid2][eid2] # p
    /\ ~Allocated(s) => \A p \in Pointers : s.deleted[p] = (IF p <= numNew THEN 1 ELSE 0)

\* C14 witness: dealloc destroyed the two components still stored, after an earlier
\* deletion by a remove, a replace or a destroyNow
C14_Witness ==
    /\ Called("dealloc")
    /\ Len(last.dlog) = 2
    /\ numNew = 3
    /\ \A p \in 1 .. 3 : deleted[p] = 1

\* an addComponent call the engine must accept: a component, a valid type, a live id
AcceptedAdd == ReplacingAdd \/ FreshAdd

\* a removeComponent call on an occupied slot
OccupiedRemove ==
    /\ Called("removeComponent")
    /\ last.cid \in Cids /\ LiveIn(last.pre, last.eid)
    /\ SlotOf(last.pre, last.cid, last.eid) # NoComponent

\* C15: add/get/remove round trip: after addComponent(cid, eid, c) on a live eid,
\* getComponent(cid, eid) returns the instance c, not deleted; after removeComponent(cid,
\* eid) on the slot so filled, getComponent(cid, eid) is absent, eid is not in getAll(cid),
\* and getAll(cid) is empty if eid was the only holder
C15_RoundTrip ==
    /\ AcceptedAdd =>
        /\ last.out = "ok"
        /\ getComponent(State, last.cid, last.eid).out = "ok"
        /\ getComponent(State, last.cid, last.eid).ret = last.c
        /\ deleted[last.c] = 0
    /\ OccupiedRemove =>
        /\ last.out = "ok"
        /\ getComponent(State, last.cid, last.eid).out = "ok"
        /\ getComponent(State, last.cid, last.eid).ret = NoComponent
        /\ Occurrences(getAll(State, last.cid), last.eid) = 0
        /\ deleted[SlotOf(last.pre, last.cid, last.eid)] = 1
        /\ ListOf(last.pre, last.cid) = <<last.eid>> => getAll(State, last.cid) = <<>>

\* C15 witness: the component of the only holder of a type was removed
C15_Witness ==
    /\ OccupiedRemove
    /\ ListOf(last.pre, last.cid) = <<last.eid>>
    /\ getAll(State, last.cid) = <<>>
    /\ LiveIn(State, last.eid)

\* C16: destroying one entity leaves the others intact: after destroyNow(A) on a live A,
\* for every other id B, exists(B) and getComponent(cid, B) for every type are as before,
\* every getAll(cid) is the list before without A, and only A's components are deleted;
\* with getAll(cid) = [A, B] before, count(cid) is 1 and getAll(cid) is [B] after
C16_OthersIntact ==
    (Called("destroyNow") /\ LiveIn(last.pre, last.eid)) =>
        /\ \A B \in Eids \ {last.eid} :
            /\ exists(State, B).ret = LiveIn(last.pre, B)
            /\ \A cid \in Cids :
                getComponent(State, cid, B).ret = SlotOf(last.pre, cid, B)
        /\ \A cid \in Cids :
            /\ getAll(State, cid) = Without(ListOf(last.pre, cid), last.eid)
            /\ Len(ListOf(last.pre, cid)) = 2 /\ Occurrences(ListOf(last.pre, cid), last.eid) = 1
                => countCid(State, cid) = 1
        /\ \A p \in Pointers :
            deleted[p] = last.pre.deleted[p]
                + (IF \E cid \in Cids : SlotOf(last.pre, cid, last.eid) = p THEN 1 ELSE 0)

\* C16 witness: of two entities holding a component of one type, the first was destroyed
C16_Witness ==
    /\ Called("destroyNow")
    /\ \E cid \in Cids, B \in Eids \ {last.eid} :
        /\ ListOf(last.pre, cid) = <<last.eid, B>>
        /\ getAll(State, cid) = <<B>>
        /\ countCid(State, cid) = 1
        /\ exists(State, B).ret = TRUE

\* the engine's tables at the time of the call, as the state a call starts from
PreState ==
    [entities |-> last.pre.entities, components |-> last.pre.components,
     componentEids |-> last.pre.componentEids, deleted |-> last.pre.deleted,
     dlog |-> <<>>, out |-> "ok", ret |-> 0]

\* the caller's sequence id = create(); addComponent(T1, id, c1); addComponent(T2, id, c2),
\* which stops at a call that throws
Sequential(s, args) ==
    LET s0 == create(s) IN
    IF s0.out # "ok" THEN s0
    ELSE LET s1 == addComponent(s0, args[1][1], s0.ret, args[1][2]) IN
         IF s1.out # "ok" THEN s1
         ELSE IF Len(args) = 1 THEN [s1 EXCEPT !.ret = s0.ret]
         ELSE LET s2 == addComponent(s1, args[2][1], s0.ret, args[2][2]) IN
              IF s2.out # "ok" THEN s2 ELSE [s2 EXCEPT !.ret = s0.ret]

\* the last argument of type cid in the pack args that is not null, 0 if there is none
LastOfType(args, cid) ==
    LET at == {i \in 1 .. Len(args) : args[i][1] = cid /\ args[i][2] # NoComponent} IN
    IF at = {} THEN NoComponent
    ELSE args[CHOOSE i \in at : \A j \in at : j <= i][2]

\* C17: create(c1, ..., cn) ends as the sequence id = create(); addComponent(T1, id, c1);
\* ...; addComponent(Tn, id, cn) does: same outcome, same returned id, same tables, same
\* deletions. When an id is issued, each type's slot of the new id holds the last non-null
\* argument of that type, the earlier non-null arguments of that type are deleted, a null
\* argument does not undo the others, and the id is once in getAll of each type it holds
C17_CreateWithComponents ==
    Called("createArgs") =>
        LET seq == Sequential(PreState, last.c) IN
        /\ last.out = seq.out
        /\ last.ret = seq.ret
        /\ last.dlog = seq.dlog
        /\ SameStorage(seq)
        /\ deleted = seq.deleted
        /\ (last.out = "ok" /\ last.ret # 0) =>
            /\ ~LiveIn(last.pre, last.ret) /\ LiveIn(State, last.ret)
            /\ \A cid \in Cids :
                /\ getComponent(State, cid, last.ret).ret = LastOfType(last.c, cid)
                /\ Occurrences(getAll(State, cid), last.ret) =
                       (IF LastOfType(last.c, cid) # NoComponent THEN 1 ELSE 0)
            /\ \A i \in 1 .. Len(last.c) :
                LET c == last.c[i][2] IN
                c # NoComponent =>
                    deleted[c] = (IF c = LastOfType(last.c, last.c[i][1]) THEN 0 ELSE 1)

\* C17 witness: create(c1, c2) with two instances of one type issued an id that holds c2,
\* and c1 is deleted
C17_Witness ==
    /\ Called("createArgs")
    /\ last.out = "ok" /\ last.ret # 0
    /\ Len(last.c) = 2
    /\ last.c[1][1] = last.c[2][1]
    /\ last.c[1][2] # NoComponent /\ last.c[2][2] # NoComponent
    /\ getComponent(State, last.c[1][1], last.ret).ret = last.c[2][2]
    /\ deleted[last.c[1][2]] = 1

\* C18 as stated: exists(eid) returns normally, and returns true exactly when the engine is
\* allocated and eid is a live id of the table; false for 0, for every id of an engine that
\* is not allocated, and for ids past the range
C18_Original ==
    Called("exists") =>
        /\ last.out = "ok"
        /\ last.ret = LiveIn(last.pre, last.eid)
        /\ last.eid = 0 => last.ret = FALSE
        /\ ~Allocated(last.pre) => last.ret = FALSE
        /\ last.eid >= kMaxEntities => last.ret = FALSE

\* C19: count(cid) is the number of live ids for which getComponent(cid, eid) returns a
\* component, and the length of getAll(cid); count(cid) <= count() <= kMaxEntities - 1,
\* count() being 0 on an engine that is not allocated; every id in getAll(cid) is a live id
\* of 1 .. kMaxEntities - 1. Stated for the engine between calls: a returned call leaves
\* the tables it stored
C19_CountsAgree ==
    Idle =>
    LET s == State IN
    /\ count(s) <= kMaxEntities - 1
    /\ ~Allocated(s) => count(s) = 0
    /\ \A cid \in Cids :
        LET all == getAll(s, cid) IN
        /\ countCid(s, cid) = Len(all)
        /\ countCid(s, cid) =
               Cardinality({eid \in Eids : exists(s, eid).ret /\ PresentIn(s, cid, eid)})
        /\ countCid(s, cid) <= count(s)
        /\ \A i \in 1 .. Len(all) :
            /\ all[i] \in 1 .. (kMaxEntities - 1)
            /\ exists(s, all[i]).ret

\* C19 witness: count(cid) was asked with two holders of the type among three live entities
C19_Witness ==
    /\ Called("countCid")
    /\ last.cid \in Cids
    /\ countCid(State, last.cid) = 2
    /\ count(State) = 3

\* a removeComponent call on an absent slot of an allocated engine
AbsentRemove ==
    /\ Called("removeComponent")
    /\ Allocated(last.pre)
    /\ last.cid \in Cids /\ last.eid \in Eids
    /\ SlotOf(last.pre, last.cid, last.eid) = NoComponent

\* C20: removeComponent(cid, eid) on an absent slot deletes nothing and leaves the liveness
\* table, every slot and every dense list unchanged, and it returns normally when eid is
\* live; a removeComponent that follows a returned removeComponent with the same arguments
\* deletes nothing and changes nothing
C20_RemoveAbsentIsNoOp ==
    /\ AbsentRemove =>
        /\ last.out # "ub"
        /\ LiveIn(last.pre, last.eid) => last.out = "ok"
        /\ last.dlog = <<>>
        /\ SameStorage(last.pre)
        /\ deleted = last.pre.deleted
    /\ (Called("removeComponent") /\ Allocated(last.pre) /\ last.out = "ok") =>
        LET again == removeComponent(State, last.cid, last.eid) IN
        /\ again.out = "ok"
        /\ again.dlog = <<>>
        /\ SameStorage(again)
        /\ deleted = again.deleted

\* C20 witness: removeComponent found the slot of a live entity absent, while another
\* entity holds the type and an instance has been deleted before
C20_Witness ==
    /\ AbsentRemove
    /\ LiveIn(last.pre, last.eid)
    /\ last.out = "ok"
    /\ getAll(State, last.cid) # <<>>
    /\ \E p \in Pointers : deleted[p] = 1

\* a call with a component type past the configured range
InvalidTag(op) == Called(op) /\ last.cid >= numCids

\* C21 as stated: with cid >= numCids and any eid, addComponent and removeComponent read
\* and write no storage outside the tables and leave the liveness table, every slot, every
\* dense list and every instance as they were; getComponent returns no component, getAll
\* is the empty sequence and count(cid) is 0
C21_Original ==
    /\ (InvalidTag("addComponent") \/ InvalidTag("removeComponent")) =>
        /\ last.out # "ub"
        /\ SameStorage(last.pre)
        /\ deleted = last.pre.deleted
        /\ last.dlog = <<>>
    /\ InvalidTag("getComponent") => last.out = "ok" /\ last.ret = NoComponent
    /\ InvalidTag("getAll") => last.out = "ok" /\ last.ret = <<>>
    /\ InvalidTag("countCid") => last.out = "ok" /\ last.ret = 0

\* C22: destroyAll() on an allocated engine returns normally and keeps the engine
\* allocated; after it no id is live and count() is 0, every slot is absent, every
\* getAll(cid) is empty, every instance that was stored is deleted once and no other is, and
\* a create() that follows returns id 1
C22_DestroyAllResets ==
    (Called("destroyAll") /\ Allocated(last.pre)) =>
        /\ last.out = "ok"
        /\ Allocated(State)
        /\ count(State) = 0
        /\ \A eid \in Eids :
            /\ exists(State, eid).ret = FALSE
            /\ \A cid \in Cids : getComponent(State, cid, eid).ret = NoComponent
        /\ \A cid \in Cids : getAll(State, cid) = <<>> /\ countCid(State, cid) = 0
        /\ \A p \in Pointers :
            deleted[p] = last.pre.deleted[p] + (IF Holds(last.pre, p) THEN 1 ELSE 0)
        /\ create(State).out = "ok"
        /\ create(State).ret = 1

\* C22 witness: destroyAll() destroyed two live entities and the components they held
C22_Witness ==
    /\ Called("destroyAll")
    /\ count(PreState) >= 2
    /\ Len(last.dlog) >= 2
    /\ count(State) = 0

\* C23: alloc() returns normally and deletes nothing; on an allocated engine it leaves the
\* liveness table, every slot and every dense list as they were; on an engine that is not
\* allocated it leaves an allocated engine with no live id, every slot absent and every
\* dense list empty; a second alloc() changes nothing
C23_AllocIdempotent ==
    Called("alloc") =>
        /\ last.out = "ok"
        /\ last.dlog = <<>>
        /\ deleted = last.pre.deleted
        /\ Allocated(State)
        /\ Allocated(last.pre) => SameStorage(last.pre)
        /\ ~Allocated(last.pre) =>
            /\ count(State) = 0
            /\ \A eid \in Eids : exists(State, eid).ret = FALSE
            /\ \A cid \in Cids :
                /\ getAll(State, cid) = <<>>
                /\ \A eid \in Eids : getComponent(State, cid, eid).ret = NoComponent
        /\ SameStorage(alloc(State))

\* C23 witness: alloc() was called on an engine with a live entity that holds a component
C23_Witness ==
    /\ Called("alloc")
    /\ Allocated(last.pre)
    /\ count(State) >= 1
    /\ \E cid \in Cids : getAll(State, cid) # <<>>

\* C24: get<C>(eid) returns the stored instance when getComponent(C::cid, eid) returns
\* one; when getComponent returns none (eid 0, not live, past the range, empty slot) it
\* returns the static default instance of C, the same for every eid, which is no instance
\* handed to the engine and not the default instance of another class; the call leaves the
\* liveness table, every slot, every dense list and every instance as they were
C24_ReferenceLookup ==
    (Called("get") /\ last.out = "ok") =>
        LET p == getComponent(PreState, last.cid, last.eid).ret IN
        /\ p # NoComponent => last.ret = p /\ deleted[p] = 0
        /\ p = NoComponent =>
            /\ last.ret \notin Pointers \cup {NoComponent}
            /\ \A eid \in EidArgs :
                LET other == getComponent(State, last.cid, eid) IN
                (other.out = "ok" /\ other.ret = NoComponent) =>
                    get(State, last.cid, eid).ret = last.ret
            /\ \A cid \in Cids \ {last.cid}, eid \in EidArgs :
                get(State, cid, eid).ret # last.ret
        /\ SameStorage(last.pre)
        /\ deleted = last.pre.deleted
        /\ last.dlog = <<>>

\* C24 witness: get<C> missed on a live entity whose slot is empty, while another entity
\* holds a component of the class
C24_Witness ==
    /\ Called("get")
    /\ LiveIn(last.pre, last.eid)
    /\ last.ret = Sentinel(last.cid)
    /\ getAll(State, last.cid) # <<>>

\* an engine that was never used
Unused ==
    [entities |-> nullptr, components |-> nullptr, componentEids |-> nullptr,
     deleted |-> [p \in Pointers |-> 0], dlog |-> <<>>, out |-> "ok", ret |-> 0]

\* C27: a create() on an engine that is not allocated (after dealloc()) allocates the
\* tables again and ends as on an engine never used: it returns id 1, count() is 1,
\* count(cid) is 0 and every slot absent for every type, and 1 is the only live id; a
\* returned dealloc() leaves such an engine
C27_ReallocAfterTeardown ==
    /\ (Called("create") /\ ~Allocated(last.pre)) =>
        /\ last.out = "ok"
        /\ last.ret = 1
        /\ SameStorage(create(Unused))
        /\ deleted = last.pre.deleted
    /\ (Called("dealloc") /\ last.out = "ok") =>
        LET s == create(State) IN
        /\ s.out = "ok"
        /\ s.ret = 1
        /\ count(s) = 1
        /\ \A eid \in Eids : exists(s, eid).ret = (eid = 1)
        /\ \A cid \in Cids :
            /\ countCid(s, cid) = 0
            /\ \A eid \in Eids : getComponent(s, cid, eid).ret = NoComponent

\* C27 witness: create() was called on an engine that is not allocated and has deleted an
\* instance before (it was used and torn down), and returned 1
C27_Witness ==
    /\ Called("create")
    /\ ~Allocated(last.pre)
    /\ \E p \in Pointers : last.pre.deleted[p] = 1
    /\ last.ret = 1
    /\ count(State) = 1

\* a create(args...) call on an engine whose ids are all live
ExhaustedCreateArgs == Called("createArgs") /\ Full(last.pre)

\* none of the instances of the pack args is stored or deleted
NoneTaken(args) ==
    \A i \in 1 .. Len(args) :
        args[i][2] # NoComponent => ~Holds(State, args[i][2]) /\ deleted[args[i][2]] = 0

\* C28 as stated: a rejected addComponent neither stores nor deletes the component, and no
\* instance the engine did not accept is stored or deleted later; create(c1, ..., cn) on an
\* exhausted engine returns 0 with none of c1 .. cn stored or deleted
C28_Original ==
    /\ (RejectedAdd /\ last.c # NoComponent) =>
        ~Holds(State, last.c) /\ deleted[last.c] = 0
    /\ Idle => \A p \in Pointers : p > numNew => ~Holds(State, p) /\ deleted[p] = 0
    /\ ExhaustedCreateArgs =>
        /\ last.out = "ok" /\ last.ret = 0
        /\ NoneTaken(last.c)

\* C28 amended: a rejected addComponent neither stores nor deletes the component, and no
\* instance the engine did not accept is stored or deleted later; create(c1, ..., cn) on an
\* exhausted engine changes no table and stores and deletes none of c1 .. cn: it returns 0
\* in a build with NDEBUG and throws through Assert in a build without
C28_RejectedNotOwned ==
    /\ (RejectedAdd /\ last.c # NoComponent) =>
        ~Holds(State, last.c) /\ deleted[last.c] = 0
    /\ Idle => \A p \in Pointers : p > numNew => ~Holds(State, p) /\ deleted[p] = 0
    /\ ExhaustedCreateArgs =>
        /\ last.out = (IF ndebug THEN "ok" ELSE "throw")
        /\ ndebug => last.ret = 0
        /\ NoneTaken(last.c)
        /\ SameStorage(last.pre)
        /\ deleted = last.pre.deleted

\* C28 witness: create(c1, c2) with two instances on an exhausted engine returned 0
C28_Witness ==
    /\ ExhaustedCreateArgs
    /\ Len(last.c) = 2
    /\ last.c[1][2] # NoComponent /\ last.c[2][2] # NoComponent
    /\ last.out = "ok" /\ last.ret = 0
    /\ NoneTaken(last.c)

\* a sequence without repeated entries
NoRepeats(seq) == \A i, j \in 1 .. Len(seq) : i # j => seq[i] # seq[j]

\* C25: tick goes through the copy of getAll<HealthComponent>() it made before the loop:
\* the loop visits the eids of the copy in the order of the list, each once, also after
\* entities were destroyed inside the loop, so a tick that has returned has visited every
\* eid of the copy exactly once; no HealthComponent is read or written after its delete,
\* the fields of the static default instance stay 0, and no call ends outside its contract
C25_SnapshotProtocol ==
    /\ NoRepeats(tickAll)
    /\ pc = "for" =>
        /\ pos \in 1 .. (Len(tickAll) + 1)
        /\ visited = SubSeq(tickAll, 1, pos - 1)
    /\ (pc \in {"while", "dealloc", "done"} /\ ticks > 0) => visited = tickAll
    /\ ~stale
    /\ health[Sentinel(HealthCid)] = HealthComponent(0, 0)
    /\ pc # "crashed"

\* C25 witness: in the running tick the first entity of the copy was destroyed inside the
\* loop and the second, still live, has been visited after it
C25_Witness ==
    /\ pc = "for"
    /\ Len(tickAll) = 2
    /\ pos = 3
    /\ visited = tickAll
    /\ ~LiveIn(State, tickAll[1])
    /\ LiveIn(State, tickAll[2])

\* the hit points the entity eid was created with: main gives entity k the k-th instance
CreatedWith(eid) == health[eid].maxHP

\* between ticks: after t ticks an entity created with n hit points is live with n - t hit
\* points if n > t, and was destroyed, its component deleted once, if n <= t
BetweenTicks ==
    pc \in {"while", "dealloc"} =>
        \A eid \in 1 .. numNew :
            LET n == CreatedWith(eid) IN
            /\ LiveIn(State, eid) = (n > ticks)
            /\ n > ticks =>
                /\ SlotOf(State, HealthCid, eid) = eid
                /\ health[eid].hp = n - ticks
            /\ deleted[eid] = (IF n > ticks THEN 0 ELSE 1)

\* C26: the example main loop terminates: each tick takes one hit point from every holder
\* of a HealthComponent and destroys the entity in the tick in which it reaches 0, so an
\* entity created with n > 0 hit points is destroyed in the n-th tick; main leaves the
\* loop with no live entity, and dealloc() and the end of main are reached
C26_MainTerminates ==
    /\ [](BetweenTicks)
    /\ [](pc = "dealloc" => count(State) = 0)
    /\ [](pc = "done" => ~Allocated(State) /\ \A eid \in 1 .. numNew : CreatedWith(eid) <= ticks)
    /\ <>(pc = "done")

\* C26 witness: main has ended after the 100 ticks of the entity created with 100 hit
\* points, the other entity created with 7
C26_Witness ==
    /\ pc = "done"
    /\ ticks = 100
    /\ CreatedWith(1) = 100 /\ CreatedWith(2) = 7
    /\ deleted[1] = 1 /\ deleted[2] = 1

\* the eids that hold a component of class cid in the min/max revision
mmHolders(s, cid) == {eid \in Eids : s.components[cid][eid] # NoComponent}

\* the least and the greatest member of a set of eids that is not empty
Least(S) == CHOOSE x \in S : \A y \in S : x <= y
Greatest(S) == CHOOSE x \in S : \A y \in S : y <= x

\* C29 as stated: in the min/max revision, after any calls of addComponent,
\* removeComponent and destroyNow, for every class with at least one holder getMinEid(cid)
\* is the smallest and getMaxEid(cid) the largest eid that holds one, every holder is in
\* getMinEid(cid) .. getMaxEid(cid), and count(cid) counts them all
C29_Original ==
    (Idle /\ components # nullptr) =>
        LET s == mmState IN
        \A cid \in Cids :
            mmHolders(s, cid) # {} =>
                /\ getMinEid(s, cid).ret = Least(mmHolders(s, cid))
                /\ getMaxEid(s, cid).ret = Greatest(mmHolders(s, cid))
                /\ mmHolders(s, cid) \subseteq getMinEid(s, cid).ret .. getMaxEid(s, cid).ret
                /\ mmCount(s, cid) = Cardinality(mmHolders(s, cid))
====
